---- MODULE Spec2Model ----
(***************************************************************************)
(* estate-radar-worker: the scraper of src/sources/estatesalesnet.js       *)
(* (parseDateRange, isHomeLocation, parseList, the page tasks and the      *)
(* de-dupe of searchEstateSalesNet), the per-item synchronizer of          *)
(* src/unnamed/part_002 (need, upsertSale, main, logRun), the bulk worker  *)
(* of src/unnamed/part_000 and the canary probe of src/index.js, against   *)
(* the 'sales' and 'runs' tables.                                          *)
(*                                                                         *)
(* Text is a sequence of atoms (a word, a date, a blank " ", a dash "-"),  *)
(* so that trimming, splitting, concatenation and substring search are     *)
(* computed.  A nullable value is <<>> (null) or <<v>>.  A timestamp is    *)
(* the number of hours since the start of the year (toISOString keeps the  *)
(* order).                                                                 *)
(***************************************************************************)
EXTENDS Integers, Sequences, FiniteSets, TLC

VARIABLES
  when,      \* SpecNorm: the card's date text handed to parseDateRange
  card,      \* SpecNorm: the card's title, address and hours text
  listing,   \* SpecNorm: what parseList pushes for the card (<<>> before)
  payload,   \* SpecNorm: what upsertSale prepares for the store (<<>> before)
  results,   \* SpecDedup: the listings of all pages, in scan order
  pc,        \* position of the running process
  items,     \* what searchEstateSalesNet returned
  i,         \* index of the next item of the for-of loop of main
  inserts, updates, errors,   \* the counters of main
  sales,     \* the 'sales' table: row id -> row, ids in insertion order
  runs,      \* the 'runs' table
  runNo,     \* invocations of the worker so far
  first,     \* SpecIdem: counters and table after the first pass (<<>> before)
  env,       \* the environment variables that are set
  task,      \* SpecFetch: page -> state of its task in the pLimit queue
  html,      \* SpecFetch: page -> what its fetch resolved to (<<>> before)
  lastLog    \* status of the last logRun call of this invocation

vars == <<when, card, listing, payload, results, pc, items, i, inserts,
          updates, errors, sales, runs, runNo, first, env, task, html,
          lastLog>>

----------------------------------------------------------------------------
(* Bounds of the model *)

MaxResults == 3
MaxRuns == 3
MaxRows == 3
MaxWhenLen == 3
MaxLog == 2

----------------------------------------------------------------------------
(* Values *)

Null == <<>>
Some(v) == <<v>>

StartHour == 9
EndHour == 15

\* day of the year of a date text dayjs parses
DayOfYear(t) ==
  CASE t = "Nov 7" -> 311
    [] t = "Nov 9" -> 313

DateTokens == {"Nov 7", "Nov 9"}

IsBlank(t) == t = " "

RECURSIVE TrimStart(_)
TrimStart(s) ==
  IF s # <<>> /\ IsBlank(Head(s)) THEN TrimStart(Tail(s)) ELSE s

RECURSIVE TrimEnd(_)
TrimEnd(s) ==
  IF s # <<>> /\ IsBlank(s[Len(s)]) THEN TrimEnd(SubSeq(s, 1, Len(s) - 1)) ELSE s

Trim(s) == TrimEnd(TrimStart(s))

\* raw.replace(/\s+/g, ' '): a run of blanks becomes one blank
RECURSIVE CollapseBlanks(_)
CollapseBlanks(s) ==
  IF Len(s) < 2 THEN s
  ELSE IF IsBlank(s[1]) /\ IsBlank(s[2]) THEN CollapseBlanks(Tail(s))
  ELSE <<Head(s)>> \o CollapseBlanks(Tail(s))

\* the two dashes of /[--]/ in parseDateRange: the hyphen and the en dash
Dashes == {"-", "ndash"}

Commas == {","}

\* s.split(seps): the pieces between separators, the empty ones included
RECURSIVE SplitOn(_, _, _)
SplitOn(s, seps, cur) ==
  IF s = <<>> THEN <<cur>>
  ELSE IF Head(s) \in seps THEN <<cur>> \o SplitOn(Tail(s), seps, <<>>)
  ELSE SplitOn(Tail(s), seps, Append(cur, Head(s)))

\* dayjs(part, ['ddd MMM D', 'MMM D'], true).isValid()
IsValidDate(part) == Len(part) = 1 /\ part[1] \in DateTokens

At(part, hour) == DayOfYear(part[1]) * 24 + hour

parseDateRange(raw) ==
  LET cleaned == Trim(CollapseBlanks(raw))
      split == SplitOn(cleaned, Dashes, <<>>)
      parts == [k \in 1..Len(split) |-> Trim(split[k])]
      none == [start_at |-> Null, end_at |-> Null]
  IN IF Len(parts) = 1
     THEN IF IsValidDate(parts[1])
          THEN [start_at |-> Some(At(parts[1], StartHour)),
                end_at |-> Some(At(parts[1], EndHour))]
          ELSE none
     ELSE IF IsValidDate(parts[1]) /\ IsValidDate(parts[2])
          THEN [start_at |-> Some(At(parts[1], StartHour)),
                end_at |-> Some(At(parts[2], EndHour))]
          ELSE none

\* cityFromAddress: the piece before the last comma, trimmed; null without comma
cityFromAddress(addr) ==
  LET parts == SplitOn(addr, Commas, <<>>)
  IN IF Len(parts) >= 2 THEN Some(Trim(parts[Len(parts) - 1])) ELSE Null

\* x || null for a nullable text: the empty text is falsy
OrNull(x) == IF x = Null \/ x = Some(<<>>) THEN Null ELSE x

buildDirections(address) == <<"maps/dir", "/">> \o address

\* a time of day: \d{1,2}(:\d{2})?\s*(am|pm)?
TimeAtoms == {"9am", "3pm", "10:00", "2:00"}

\* an atom that is a whole range, written without blanks
RangeAtoms == {"9am-3pm"}

\* the index of the first atom at or after j that is no blank
RECURSIVE SkipBlanks(_, _)
SkipBlanks(s, j) ==
  IF j <= Len(s) /\ IsBlank(s[j]) THEN SkipBlanks(s, j + 1) ELSE j

\* the index of the last atom of the range that begins at j, 0 when none
\* begins there: a time, a dash and a time, with blanks around the dash
RangeEnd(s, j) ==
  IF s[j] \in RangeAtoms THEN j
  ELSE IF s[j] \notin TimeAtoms THEN 0
  ELSE LET d == SkipBlanks(s, j + 1)
       IN IF d > Len(s) \/ s[d] \notin Dashes THEN 0
          ELSE LET e == SkipBlanks(s, d + 1)
               IN IF e <= Len(s) /\ s[e] \in TimeAtoms THEN e ELSE 0

\* parseHours: { generic: m[0] } for the first range of the text, or null
parseHours(raw) ==
  LET starts == {j \in DOMAIN raw : RangeEnd(raw, j) # 0}
  IN IF starts = {} THEN Null
     ELSE LET j == CHOOSE k \in starts : \A m \in starts : k <= m
          IN Some(SubSeq(raw, j, RangeEnd(raw, j)))

\* toLowerCase of a text: the atoms that spell a word of a keyword with
\* upper-case letters; no other atom of the model holds a letter of a keyword
LowerAtom(t) ==
  CASE t = "Warehouse" -> "warehouse"
    [] t = "STORE" -> "store"
    [] t = "Hours" -> "hours"
    [] t = "Directions" -> "directions"
    [] t = "Estate" -> "estate"
    [] t = "Sale" -> "sale"
    [] OTHER -> t

toLowerCase(s) == [k \in DOMAIN s |-> LowerAtom(s[k])]

\* t.includes(k): k is a run of consecutive atoms of t
includes(t, k) ==
  \E j \in 1..(Len(t) - Len(k) + 1) : SubSeq(t, j, j + Len(k) - 1) = k

\* the list `bad` of isHomeLocation
bad ==
  {<<"store", " ", "hours">>, <<"retail", " ", "store">>, <<"warehouse">>,
   <<"storage", " ", "unit">>, <<"showroom">>, <<"consignment">>,
   <<"off", "-", "site">>, <<"off", " ", "site">>,
   <<"by", " ", "appointment", " ", "only">>}

\* a filter that compares without lowering the case
isHomeLocationCased(textBlob) == ~ \E k \in bad : includes(textBlob, k)

isHomeLocation(textBlob) ==
  LET t == toLowerCase(textBlob)
  IN ~ \E k \in bad : includes(t, k)

\* root.text().trim(): the text nodes of the card, joined as they are
Blob(c, w) == Trim(c.title \o c.address \o w \o c.hoursTxt \o c.extra)


\* One card of parseList: c is the text the selectors found (title, address,
\* hoursTxt), w the date text.  Null when the card is skipped.
ParseCard(c, w) ==
  LET title == Trim(c.title)
      address == Trim(c.address)
      hoursTxt == Trim(c.hoursTxt)
      range == parseDateRange(w)
      blob == Blob(c, w)
  IN IF title = <<>> \/ blob = <<>> THEN Null
     ELSE IF ~ isHomeLocation(blob) THEN Null
     ELSE Some([title |-> title,
                address |-> address,
                city |-> OrNull(cityFromAddress(address)),
                start_at |-> range.start_at,
                end_at |-> range.end_at,
                hours_json |-> IF hoursTxt # <<>> THEN Some(hoursTxt) ELSE Null,
                distance_mi |-> Null,
                directions_url |->
                  IF address # <<>> THEN Some(buildDirections(address)) ELSE Null,
                source |-> "estatesales.net"])

Placeholder == <<"Untitled Estate Sale">>

\* the shape guard of upsertSale
Payload(item) ==
  [title |-> IF Trim(item.title) = <<>> THEN Placeholder ELSE Trim(item.title),
   address |-> item.address,
   city |-> OrNull(item.city),
   start_at |-> item.start_at,
   end_at |-> item.end_at,
   hours_json |-> item.hours_json,
   distance_mi |-> item.distance_mi,
   directions_url |-> OrNull(item.directions_url),
   source |-> IF item.source = "" THEN "estatesales.net" ELSE item.source]

----------------------------------------------------------------------------
(* The de-dupe of searchEstateSalesNet *)

\* `${r.title}|${r.address}`
DedupeKey(r) == r.title \o <<"|">> \o r.address

RECURSIVE DedupeFrom(_, _)
DedupeFrom(rs, seen) ==
  IF rs = <<>> THEN <<>>
  ELSE IF DedupeKey(Head(rs)) \in seen THEN DedupeFrom(Tail(rs), seen)
  ELSE <<Head(rs)>> \o DedupeFrom(Tail(rs), seen \cup {DedupeKey(Head(rs))})

\* a filter that never drops
DedupeKeepAll(rs) == rs

Dedupe(rs) == DedupeFrom(rs, {})

\* the natural key of the data model
NaturalKey(r) == <<r.title, r.address, r.start_at>>

----------------------------------------------------------------------------
(* Inputs *)

\* every sequence over S of length at most n
SeqsUpTo(S, n) == UNION {[1..k -> S] : k \in 0..n}

RawTokens == {" ", "-", "Nov 7", "Nov 9", "x"}
WhenTexts == SeqsUpTo(RawTokens, MaxWhenLen)

\* the rest of the text of a card: none, the link text, spellings of a
\* keyword (inside a longer word, in upper case, over several words) and
\* texts that hold a part of a keyword only
Extras ==
  {<<>>, <<"Directions">>, <<"Warehouse", "s">>, <<"STORE", " ", "Hours">>,
   <<"store", "-", "hours">>, <<"off", "-", "site">>,
   <<"by", " ", "appointment">>}

Cards ==
  [title : {<<>>, <<"A">>, <<" ", "A", " ">>},
   address : {<<>>, <<"1 Main St", ",", " ", "Palmdale", ",", " ", "CA">>},
   hoursTxt : {<<>>, <<"9am-3pm">>, <<"cash only">>,
               <<"Sat", " ", "9am", " ", "-", " ", "3pm">>},
   extra : Extras]

\* the cards of the results pages: sale A undated, sale A dated with and
\* without hours, sale B
PageCards ==
  {[title |-> <<"A">>, address |-> <<"1 Main St">>, hoursTxt |-> <<>>,
    when |-> <<>>, extra |-> <<"Directions">>],
   [title |-> <<"A">>, address |-> <<"1 Main St">>, hoursTxt |-> <<"9am-3pm">>,
    when |-> <<"Nov 7">>, extra |-> <<"Directions">>],
   [title |-> <<"A">>, address |-> <<"1 Main St">>, hoursTxt |-> <<>>,
    when |-> <<"Nov 7">>, extra |-> <<"Directions">>],
   [title |-> <<"B">>, address |-> <<"1 Main St">>, hoursTxt |-> <<>>,
    when |-> <<>>, extra |-> <<"Directions">>]}

\* the listings parseList pushes for those cards
Listings == {ParseCard(c, c.when)[1] : c \in PageCards}

ResultSeqs == SeqsUpTo(Listings, MaxResults)

\* what searchEstateSalesNet can return for them
Fetched == {Dedupe(r) : r \in ResultSeqs}

----------------------------------------------------------------------------
(* The 'runs' table *)

\* logRun: the insert into 'runs' appends the record or fails; a failure is
\* swallowed by the try/catch.  The table holds MaxLog records at most: an
\* insert into a full table fails.
logRun(status, notes) ==
  /\ lastLog' = status
  /\ \/ /\ Len(runs) < MaxLog
        /\ runs' = Append(runs, [status |-> status, notes |-> notes])
     \/ runs' = runs

\* `done: ${items.length} fetched, ${inserts} inserted, ${updates} updated,
\* ${errors} errors`
Summary == <<Len(items), inserts, updates, errors>>

----------------------------------------------------------------------------
(* upsertSale *)

\* the rows the lookup query selects: title and address equal, and start_at
\* equal only when the payload has one
Matches(tbl, p) ==
  {id \in DOMAIN tbl :
     /\ tbl[id].title = p.title
     /\ tbl[id].address = p.address
     /\ (p.start_at # Null => tbl[id].start_at = p.start_at)}

\* an upsertSale that takes a failed lookup for "no row found" and inserts
upsertSaleLookupIgnored(tbl, item) ==
  LET p == Payload(item)
      found == Matches(tbl, p)
      written == IF found # {} THEN "update" ELSE "insert"
      lookup == IF Len(tbl) < MaxRows
                THEN {[action |-> "insert", stage |-> "select",
                       sales |-> Append(tbl, p)]}
                ELSE {[action |-> "error", stage |-> "insert", sales |-> tbl]}
      thrown == {[action |-> "error", stage |-> written, sales |-> tbl]}
      updated == {[action |-> "update", stage |-> "update",
                   sales |-> [tbl EXCEPT ![id] = p]] : id \in found}
      inserted == IF found = {} /\ Len(tbl) < MaxRows
                  THEN {[action |-> "insert", stage |-> "insert",
                         sales |-> Append(tbl, p)]}
                  ELSE {}
  IN lookup \cup thrown \cup updated \cup inserted

\* Every outcome of upsertSale(item) on table tbl.  The select, the update and
\* the insert can each return an error, which is thrown: stage is the call
\* the outcome comes from.  A select error is thrown before any write; the
\* write is the update when a row was found and the insert when none was.
\* limit(1) without an order returns any one of the matching rows.
upsertSale(tbl, item) ==
  LET p == Payload(item)
      found == Matches(tbl, p)
      written == IF found # {} THEN "update" ELSE "insert"
      thrown == {[action |-> "error", stage |-> "select", sales |-> tbl],
                 [action |-> "error", stage |-> written, sales |-> tbl]}
      updated == {[action |-> "update", stage |-> "update",
                   sales |-> [tbl EXCEPT ![id] = p]] : id \in found}
      inserted == IF found = {} /\ Len(tbl) < MaxRows
                  THEN {[action |-> "insert", stage |-> "insert",
                         sales |-> Append(tbl, p)]}
                  ELSE {}
  IN thrown \cup updated \cup inserted

----------------------------------------------------------------------------
(* main of the per-item worker *)

\* the for-of loop goes on to the next item after a call that returned and
\* after one that threw
\* a loop without the try/catch: a throw ends it
AfterItemAbort(action) == IF action = "error" THEN Len(items) + 1 ELSE i + 1

AfterItem(action) == i + 1

\* a catch block that counts nothing
CountNoErrors(n, action, which) ==
  IF action = which /\ which # "error" THEN n + 1 ELSE n

Count(n, action, which) == IF action = which THEN n + 1 ELSE n

\* the variables need() is called for when the module is loaded
Required == {"SUPABASE_URL", "SUPABASE_SERVICE_ROLE_KEY"}

\* need(name) throws when the variable is not set
\* a need() that is content with the URL
needUrlOnly(e) == "SUPABASE_URL" \in e

need(e) == Required \subseteq e

\* the module is loaded: the configuration is read before main is called, and
\* a throw of need() ends the process
Load ==
  /\ pc = "load"
  /\ pc' = IF need(env) THEN "boot" ELSE "crashed"
  /\ UNCHANGED <<env, task, html, lastLog, when, card, listing, payload,
                 results, items, i, inserts, updates, errors, sales, runs,
                 runNo, first>>

Boot ==
  /\ pc = "boot"
  /\ logRun("running", <<"ingest start">>)
  /\ pc' = "fetch"
  /\ UNCHANGED <<env, task, html, when, card, listing, payload, results,
                 items, i, inserts, updates, errors, sales, runNo, first>>

\* searchEstateSalesNet returned: the listings of the pages, de-duped
Fetch ==
  /\ pc = "fetch"
  /\ items' \in Fetched
  /\ pc' = "loop"
  /\ i' = 1
  /\ inserts' = 0 /\ updates' = 0 /\ errors' = 0
  /\ UNCHANGED <<env, task, html, lastLog, when, card, listing, payload,
                 results, sales, runs, runNo, first>>

\* searchEstateSalesNet threw: a page fetch failed
FetchFailed ==
  /\ pc = "fetch"
  /\ pc' = "failed"
  /\ UNCHANGED <<env, task, html, lastLog, when, card, listing, payload,
                 results, items, i, inserts, updates, errors, sales, runs,
                 runNo, first>>

\* one iteration of the loop: upsertSale in try/catch
LoopStep ==
  /\ pc = "loop"
  /\ i <= Len(items)
  /\ \E o \in upsertSale(sales, items[i]) :
       /\ sales' = o.sales
       /\ inserts' = Count(inserts, o.action, "insert")
       /\ updates' = Count(updates, o.action, "update")
       /\ errors' = Count(errors, o.action, "error")
       /\ i' = AfterItem(o.action)
  /\ UNCHANGED <<env, task, html, lastLog, when, card, listing, payload,
                 results, pc, items, runs, runNo, first>>

Finish ==
  /\ pc = "loop"
  /\ i > Len(items)
  /\ logRun("success", Summary)
  /\ pc' = "done"
  /\ UNCHANGED <<env, task, html, when, card, listing, payload, results,
                 items, i, inserts, updates, errors, sales, runNo, first>>

\* main().catch
Failed ==
  /\ pc = "failed"
  /\ logRun("failed", <<"Fetch failed">>)
  /\ pc' = "exit1"
  /\ UNCHANGED <<env, task, html, when, card, listing, payload, results,
                 items, i, inserts, updates, errors, sales, runNo, first>>

\* the worker is invoked again
NextRun ==
  /\ pc \in {"done", "exit1"}
  /\ runNo < MaxRuns
  /\ runNo' = runNo + 1
  /\ pc' = "load"
  /\ lastLog' = "none"
  /\ UNCHANGED <<env, task, html, when, card, listing, payload, results,
                 items, i, inserts, updates, errors, sales, runs, first>>

Init ==
  /\ when = <<>> /\ card = <<>> /\ listing = Null /\ payload = Null
  /\ results = <<>>
  /\ pc = "load"
  /\ items = <<>>
  /\ i = 1
  /\ inserts = 0 /\ updates = 0 /\ errors = 0
  /\ sales = <<>>
  /\ runs = <<>>
  /\ runNo = 1
  /\ first = Null
  /\ env \in SUBSET Required
  /\ task = <<>> /\ html = <<>>
  /\ lastLog = "none"

Next == Load \/ Boot \/ Fetch \/ FetchFailed \/ LoopStep \/ Finish \/ Failed \/ NextRun

Spec == Init /\ [][Next]_vars

----------------------------------------------------------------------------
(* SpecFetch: one invocation of the worker, with the pages of                *)
(* searchEstateSalesNet fetched one by one through pLimit                    *)

\* `pages: 2` of the call in main
Pages == 2

\* pLimit(1)
Cap == 1

MaxCards == 2

\* An element of a results page: kind is the tag or class a selector can
\* match, the other fields are the texts found in it.
Elements ==
  {[kind |-> "article", title |-> <<"A">>, address |-> <<"1 Main St">>,
    hoursTxt |-> <<>>, when |-> <<>>, extra |-> <<"Directions">>],
   [kind |-> "card", title |-> <<"A">>, address |-> <<"1 Main St">>,
    hoursTxt |-> <<"9am-3pm">>, when |-> <<"Nov 7">>,
    extra |-> <<"Estate", " ", "Sale">>],
   [kind |-> "estate-card", title |-> <<"B">>, address |-> <<"1 Main St">>,
    hoursTxt |-> <<>>, when |-> <<>>, extra |-> <<"Directions">>],
   [kind |-> "article", title |-> <<"W">>, address |-> <<"9 Dock Rd">>,
    hoursTxt |-> <<>>, when |-> <<>>,
    extra |-> <<"Directions", " ", "Warehouse">>],
   [kind |-> "li", title |-> <<"Home">>, address |-> <<>>,
    hoursTxt |-> <<>>, when |-> <<>>, extra |-> <<>>],
   [kind |-> "div", title |-> <<"N">>, address |-> <<"2 Elm St">>,
    hoursTxt |-> <<>>, when |-> <<>>, extra |-> <<"Directions">>]}

\* the documents a page fetch can resolve to
Docs == SeqsUpTo(Elements, MaxCards)

\* $('article, .sale, .card, .result, li'); an article of class estate-card
\* is an article
Selected == {"article", "sale", "card", "result", "li", "estate-card"}

\* the regular expressions of the filter of the cards
CardTexts == {<<"estate", " ", "sale">>, <<"address">>, <<"directions">>}

\* a filter that keeps every element of the document
IsCardAny(el) == TRUE

\* the element is one of `cards`
IsCard(el) ==
  /\ el.kind \in Selected
  /\ \E k \in CardTexts : includes(toLowerCase(Blob(el, el.when)), k)

RECURSIVE parseList(_)
parseList(doc) ==
  IF doc = <<>> THEN <<>>
  ELSE (IF IsCard(Head(doc)) THEN ParseCard(Head(doc), Head(doc).when)
        ELSE <<>>)
       \o parseList(Tail(doc))

\* parseLightweight: the chunks after an article of class estate-card, kept
\* when a title or an address is found
RECURSIVE parseLightweight(_)
parseLightweight(doc) ==
  IF doc = <<>> THEN <<>>
  ELSE (IF Head(doc).kind = "estate-card"
           /\ (Head(doc).title # <<>> \/ Head(doc).address # <<>>)
        THEN <<[title |-> CollapseBlanks(Head(doc).title),
                address |-> CollapseBlanks(Head(doc).address)]>>
        ELSE <<>>)
       \o parseLightweight(Tail(doc))

\* $('.card, .sale-card, .item, .listing, .sale')
ListingKinds == {"card", "sale-card", "item", "listing", "sale"}

\* parseListings: one entry per matched element, kept when it has a title, an
\* address or a city
RECURSIVE parseListings(_)
parseListings(doc) ==
  IF doc = <<>> THEN <<>>
  ELSE (IF Head(doc).kind \in ListingKinds
           /\ (Trim(Head(doc).title) # <<>> \/ Trim(Head(doc).address) # <<>>)
        THEN <<[title |-> Trim(Head(doc).title),
                address |-> Trim(Head(doc).address)]>>
        ELSE <<>>)
       \o parseListings(Tail(doc))

\* results.push(...parseList(html)) for the pages from p on, later pages first
RECURSIVE CollectReversed(_, _)
CollectReversed(pagesHtml, p) ==
  IF p > Len(pagesHtml) THEN <<>>
  ELSE CollectReversed(pagesHtml, p + 1) \o parseList(pagesHtml[p])

\* for (const html of pagesHtml) results.push(...parseList(html)), from page p
RECURSIVE Collect(_, _)
Collect(pagesHtml, p) ==
  IF p > Len(pagesHtml) THEN <<>>
  ELSE parseList(pagesHtml[p]) \o Collect(pagesHtml, p + 1)

Settled == {"resolved", "rejected"}

\* the tasks pLimit counts as running
Active == {p \in DOMAIN task : task[p] \in {"sleeping", "fetching"}}

\* a queue that runs every task at once
CanRunAny(p) == TRUE

\* pLimit runs the head of its queue when fewer than Cap tasks are running
CanRun(p) ==
  /\ Cardinality(Active) < Cap
  /\ \A q \in 1..(p - 1) : task[q] # "queued"

\* a task that fetches without the sleep
StartedAtFetch == "fetching"

\* a task that is run begins with `await sleep(500)`
Started == "sleeping"

\* the process is alive and the promises of the pages are pending or settled
Running == pc \in {"await", "failed"}

\* searchEstateSalesNet is called: one task per page is handed to limit()
Search ==
  /\ pc = "fetch"
  /\ task' = [p \in 1..Pages |-> "queued"]
  /\ html' = [p \in 1..Pages |-> Null]
  /\ pc' = "await"
  /\ UNCHANGED <<env, lastLog, when, card, listing, payload, results, items,
                 i, inserts, updates, errors, sales, runs, runNo, first>>

\* pLimit takes the next task from its queue and runs it
Dequeue ==
  /\ Running
  /\ \E p \in DOMAIN task :
       /\ task[p] = "queued"
       /\ CanRun(p)
       /\ task' = [task EXCEPT ![p] = Started]
  /\ UNCHANGED <<env, html, lastLog, when, card, listing, payload, results,
                 pc, items, i, inserts, updates, errors, sales, runs, runNo,
                 first>>

\* the timer of sleep(500) fires and fetchPage issues the request
Wake ==
  /\ Running
  /\ \E p \in DOMAIN task :
       /\ task[p] = "sleeping"
       /\ task' = [task EXCEPT ![p] = "fetching"]
  /\ UNCHANGED <<env, html, lastLog, when, card, listing, payload, results,
                 pc, items, i, inserts, updates, errors, sales, runs, runNo,
                 first>>

\* fetchPage returns the text of the response
Respond ==
  /\ Running
  /\ \E p \in DOMAIN task, doc \in Docs :
       /\ task[p] = "fetching"
       /\ task' = [task EXCEPT ![p] = "resolved"]
       /\ html' = [html EXCEPT ![p] = Some(doc)]
  /\ UNCHANGED <<env, lastLog, when, card, listing, payload, results, pc,
                 items, i, inserts, updates, errors, sales, runs, runNo,
                 first>>

\* fetch rejects, or the response is not ok and fetchPage throws
Reject ==
  /\ Running
  /\ \E p \in DOMAIN task :
       /\ task[p] = "fetching"
       /\ task' = [task EXCEPT ![p] = "rejected"]
  /\ UNCHANGED <<env, html, lastLog, when, card, listing, payload, results,
                 pc, items, i, inserts, updates, errors, sales, runs, runNo,
                 first>>

\* Promise.all resolved: the pages are parsed in the order of the array and
\* the result is de-duped and returned to main
Gather ==
  /\ pc = "await"
  /\ \A p \in DOMAIN task : task[p] = "resolved"
  /\ results' = Collect([p \in DOMAIN html |-> html[p][1]], 1)
  /\ items' = Dedupe(results')
  /\ pc' = "loop"
  /\ i' = 1
  /\ inserts' = 0 /\ updates' = 0 /\ errors' = 0
  /\ UNCHANGED <<env, task, html, lastLog, when, card, listing, payload,
                 sales, runs, runNo, first>>

\* Promise.all rejects with the first rejection: searchEstateSalesNet throws
\* and main().catch takes over; the tasks left in the queue go on
Throw ==
  /\ pc = "await"
  /\ \E p \in DOMAIN task : task[p] = "rejected"
  /\ pc' = "failed"
  /\ UNCHANGED <<env, task, html, lastLog, when, card, listing, payload,
                 results, items, i, inserts, updates, errors, sales, runs,
                 runNo, first>>

NextFetch ==
  \/ Load \/ Boot \/ Search \/ Dequeue \/ Wake \/ Respond \/ Reject
  \/ Gather \/ Throw \/ LoopStep \/ Finish \/ Failed

SpecFetch == Init /\ [][NextFetch]_vars

----------------------------------------------------------------------------
(* SpecCanary: the canary probe of src/index.js, invoked several times *)

\* the row of insertCanarySale
CanaryRow ==
  [title |-> <<"CANARY Probe">>,
   address |-> <<"36304 52nd St E", ",", " ", "Palmdale", ",", " ", "CA">>,
   city |-> <<"Palmdale">>,
   source |-> "canary"]

\* the ping of the 'runs' table: its result is not looked at
Ping ==
  /\ pc = "boot"
  /\ pc' = "log"
  /\ UNCHANGED <<env, task, html, lastLog, when, card, listing, payload,
                 results, items, i, inserts, updates, errors, sales, runs,
                 runNo, first>>

\* logRun('canary', ...) of the probe: the record is appended, or the insert
\* returns an error, which logRun throws again
CanaryLog ==
  /\ pc = "log"
  /\ lastLog' = "canary"
  /\ \/ /\ Len(runs) < MaxLog
        /\ runs' = Append(runs, [status |-> "canary",
                                 notes |-> <<"worker reached runtime">>])
        /\ pc' = "insert"
     \/ /\ runs' = runs
        /\ pc' = "caughtLog"
  /\ UNCHANGED <<env, task, html, when, card, listing, payload, results,
                 items, i, inserts, updates, errors, sales, runNo, first>>

\* insertCanarySale: the row is inserted, or the error of the insert is thrown
CanaryInsert ==
  /\ pc = "insert"
  /\ \/ /\ Len(sales) < MaxRows
        /\ sales' = Append(sales, CanaryRow)
        /\ pc' = "done"
     \/ /\ sales' = sales
        /\ pc' = "caughtInsert"
  /\ UNCHANGED <<env, task, html, lastLog, when, card, listing, payload,
                 results, items, i, inserts, updates, errors, runs, runNo,
                 first>>

\* the catch of the probe: logRun('canary_error', message) inside its own
\* try/catch, then process.exit(1)
CanaryCatch ==
  /\ pc \in {"caughtLog", "caughtInsert"}
  /\ lastLog' = "canary_error"
  /\ \/ /\ Len(runs) < MaxLog
        /\ runs' = Append(runs, [status |-> "canary_error", notes |-> <<pc>>])
     \/ runs' = runs
  /\ pc' = "exit1"
  /\ UNCHANGED <<env, task, html, when, card, listing, payload, results,
                 items, i, inserts, updates, errors, sales, runNo, first>>

NextCanary ==
  Load \/ Ping \/ CanaryLog \/ CanaryInsert \/ CanaryCatch \/ NextRun

SpecCanary == Init /\ [][NextCanary]_vars

----------------------------------------------------------------------------
(* The bulk worker of src/unnamed/part_000 with the source of                *)
(* src/unnamed/part_004                                                      *)

\* Date.now() of the call of the source: the start of a day
MockNow == DayOfYear("Nov 7") * 24

\* the listings of the placeholder source: the sales start 24 and 48 hours
\* after the call and last 6 hours
MockListings ==
  <<[title |-> <<"Railway Worker Test Sale">>, address |-> <<"456 Worker Ave">>,
     city |-> <<"Palmdale">>, startsAt |-> Some(MockNow + 24),
     endsAt |-> Some(MockNow + 24 + 6), sourceId |-> <<"esn-mock-001">>],
    [title |-> <<"Railway Worker Test Sale 2">>,
     address |-> <<"456 Worker Ave">>,
     city |-> <<"Palmdale">>, startsAt |-> Some(MockNow + 48),
     endsAt |-> Some(MockNow + 48 + 6), sourceId |-> <<"esn-mock-002">>]>>

\* a listing of the cheerio source (part_003, parseListings) for an element
\* with an address and no title: it has none of startsAt, endsAt, sourceId
UntitledListing ==
  [title |-> <<>>, address |-> <<"2 Elm St">>, city |-> <<>>,
   startsAt |-> Null, endsAt |-> Null, sourceId |-> <<>>]

\* the listing of mockListings of the live source (part_003)
LiveMockListings ==
  <<[title |-> <<"Railway Worker Test Sale">>, address |-> <<"456 Worker Ave">>,
     city |-> <<"Palmdale">>, start_at |-> Some(MockNow),
     ends_at |-> Some(MockNow), hours_json |-> Some(<<"09:00", "-", "15:00">>),
     directions_url |-> Some(<<"maps/dir", "/", "456 Worker Ave">>)]>>

\* What a source can hand to the worker: an array, empty or of listings, or
\* the object { source, listings } of the live source, which is no array.
SourceResults ==
  {[isArray |-> TRUE, listings |-> SubSeq(MockListings, 1, n)] :
     n \in 0..Len(MockListings)}
  \cup {[isArray |-> TRUE, listings |-> <<UntitledListing>>],
        [isArray |-> FALSE, listings |-> LiveMockListings],
        [isArray |-> FALSE, listings |-> <<>>]}

\* a check that takes every result for listings
IsNoOpNever(r) == FALSE

\* !results || !Array.isArray(results) || results.length === 0
IsNoOp(r) == ~ r.isArray \/ r.listings = <<>>

\* x || null for a text: the empty text is falsy
TextOrNull(t) == IF t = <<>> THEN Null ELSE Some(t)

\* the row the worker makes of a listing
BulkRow(r) ==
  [title |-> TextOrNull(r.title),
   address |-> TextOrNull(r.address),
   city |-> TextOrNull(r.city),
   starts_at |-> r.startsAt,
   ends_at |-> r.endsAt,
   source |-> "estatesales.net",
   source_id |-> TextOrNull(r.sourceId)]

BulkRows(rs) == [k \in DOMAIN rs |-> BulkRow(rs[k])]

\* onConflict: 'source,source_id'; a null source_id conflicts with no row
Conflicts(a, b) ==
  a.source = b.source /\ a.source_id = b.source_id /\ a.source_id # Null

\* the table after the rows are upserted one after the other
RECURSIVE UpsertRows(_, _)
UpsertRows(tbl, rows) ==
  IF rows = <<>> THEN tbl
  ELSE LET r == Head(rows)
           hit == {id \in DOMAIN tbl : Conflicts(tbl[id], r)}
       IN UpsertRows(IF hit = {} THEN Append(tbl, r)
                     ELSE [id \in DOMAIN tbl |->
                             IF id \in hit THEN r ELSE tbl[id]],
                     Tail(rows))

\* an upsert whose error is not looked at: a statement that failed is taken
\* for one that succeeded
bulkUpsertErrorIgnored(tbl, rows) ==
  LET clash == \E a, b \in DOMAIN rows : a # b /\ Conflicts(rows[a], rows[b])
      new == UpsertRows(tbl, rows)
  IN {[ok |-> TRUE, sales |-> tbl]}
     \cup (IF ~ clash /\ Len(new) <= MaxRows
           THEN {[ok |-> TRUE, sales |-> new]} ELSE {})

\* Every outcome of the upsert of the batch: the statement fails and writes
\* nothing, or all rows are written.  Two rows of one batch that conflict
\* make the statement fail.
bulkUpsert(tbl, rows) ==
  LET clash == \E a, b \in DOMAIN rows : a # b /\ Conflicts(rows[a], rows[b])
      new == UpsertRows(tbl, rows)
  IN {[ok |-> FALSE, sales |-> tbl]}
     \cup (IF ~ clash /\ Len(new) <= MaxRows
           THEN {[ok |-> TRUE, sales |-> new]} ELSE {})

BulkLoad ==
  /\ pc = "bulkLoad"
  /\ pc' = IF need(env) THEN "bulkBoot" ELSE "crashed"
  /\ UNCHANGED <<env, task, html, lastLog, when, card, listing, payload,
                 results, items, i, inserts, updates, errors, sales, runs,
                 runNo, first>>

BulkBoot ==
  /\ pc = "bulkBoot"
  /\ logRun("starting", <<"zip, radius">>)
  /\ pc' = "bulkFetch"
  /\ UNCHANGED <<env, task, html, when, card, listing, payload, results,
                 items, i, inserts, updates, errors, sales, runNo, first>>

\* searchEstateSalesNet returned
BulkFetch ==
  /\ pc = "bulkFetch"
  /\ results' \in SourceResults
  /\ items' = IF results'.isArray THEN results'.listings ELSE <<>>
  /\ pc' = IF IsNoOp(results') THEN "bulkEmpty" ELSE "bulkUpsert"
  /\ UNCHANGED <<env, task, html, lastLog, when, card, listing, payload, i,
                 inserts, updates, errors, sales, runs, runNo, first>>

\* searchEstateSalesNet threw
BulkFetchFailed ==
  /\ pc = "bulkFetch"
  /\ pc' = "bulkFetchCaught"
  /\ UNCHANGED <<env, task, html, lastLog, when, card, listing, payload,
                 results, items, i, inserts, updates, errors, sales, runs,
                 runNo, first>>

\* no listings: logRun('done', '0 listings (no-op)') and process.exit(0)
BulkEmpty ==
  /\ pc = "bulkEmpty"
  /\ logRun("done", <<"0 listings (no-op)">>)
  /\ pc' = "done"
  /\ UNCHANGED <<env, task, html, when, card, listing, payload, results,
                 items, i, inserts, updates, errors, sales, runNo, first>>

\* the rows are made and upserted in one statement
BulkUpsert ==
  /\ pc = "bulkUpsert"
  /\ \E o \in bulkUpsert(sales, BulkRows(items)) :
       /\ sales' = o.sales
       /\ pc' = IF o.ok THEN "bulkUpserted" ELSE "bulkUpsertCaught"
  /\ UNCHANGED <<env, task, html, lastLog, when, card, listing, payload,
                 results, items, i, inserts, updates, errors, runs, runNo,
                 first>>

\* logRun('done', `upserted=${rows.length}`) and process.exit(0)
BulkDone ==
  /\ pc = "bulkUpserted"
  /\ logRun("done", <<"upserted", Len(items)>>)
  /\ pc' = "done"
  /\ UNCHANGED <<env, task, html, when, card, listing, payload, results,
                 items, i, inserts, updates, errors, sales, runNo, first>>

\* a catch that exits without the record
BulkErrorSilent ==
  /\ pc \in {"bulkFetchCaught", "bulkUpsertCaught"}
  /\ pc' = "exit1"
  /\ UNCHANGED <<env, task, html, lastLog, when, card, listing, payload,
                 results, items, i, inserts, updates, errors, sales, runs,
                 runNo, first>>

\* the two catches: logRun('error', ...) and process.exit(1)
BulkError ==
  /\ pc \in {"bulkFetchCaught", "bulkUpsertCaught"}
  /\ logRun("error", <<pc>>)
  /\ pc' = "exit1"
  /\ UNCHANGED <<env, task, html, when, card, listing, payload, results,
                 items, i, inserts, updates, errors, sales, runNo, first>>

\* the bulk worker is invoked again
BulkNextRun ==
  /\ pc \in {"done", "exit1"}
  /\ runNo < MaxRuns
  /\ runNo' = runNo + 1
  /\ pc' = "bulkLoad"
  /\ lastLog' = "none"
  /\ UNCHANGED <<env, task, html, when, card, listing, payload, results,
                 items, i, inserts, updates, errors, sales, runs, first>>

----------------------------------------------------------------------------
(* SpecBulk: the bulk worker, invoked several times *)

InitBulk ==
  /\ when = <<>> /\ card = <<>> /\ listing = Null /\ payload = Null
  /\ results = <<>>
  /\ pc = "bulkLoad"
  /\ items = <<>>
  /\ i = 1
  /\ inserts = 0 /\ updates = 0 /\ errors = 0
  /\ sales = <<>>
  /\ runs = <<>>
  /\ runNo = 1
  /\ first = Null
  /\ env \in SUBSET Required
  /\ task = <<>> /\ html = <<>>
  /\ lastLog = "none"

NextBulk ==
  \/ BulkLoad \/ BulkBoot \/ BulkFetch \/ BulkFetchFailed \/ BulkEmpty
  \/ BulkUpsert \/ BulkDone \/ BulkError \/ BulkNextRun

SpecBulk == InitBulk /\ [][NextBulk]_vars

----------------------------------------------------------------------------
(* SpecLive: one invocation of the per-item worker or of the bulk worker.   *)
(* Every awaited call settles (the store and the site answer or fail), and  *)
(* the event loop of node then runs the continuation: a step that is        *)
(* possible is taken.                                                        *)

InitLive ==
  /\ when = <<>> /\ card = <<>> /\ listing = Null /\ payload = Null
  /\ results = <<>>
  /\ pc \in {"load", "bulkLoad"}
  /\ items = <<>>
  /\ i = 1
  /\ inserts = 0 /\ updates = 0 /\ errors = 0
  /\ sales = <<>>
  /\ runs = <<>>
  /\ runNo = 1
  /\ first = Null
  /\ env \in SUBSET Required
  /\ task = <<>> /\ html = <<>>
  /\ lastLog = "none"

NextLive ==
  \/ Load \/ Boot \/ Fetch \/ FetchFailed \/ LoopStep \/ Finish \/ Failed
  \/ BulkLoad \/ BulkBoot \/ BulkFetch \/ BulkFetchFailed \/ BulkEmpty
  \/ BulkUpsert \/ BulkDone \/ BulkError

SpecLive == InitLive /\ [][NextLive]_vars /\ WF_vars(NextLive)

----------------------------------------------------------------------------
(* SpecDedup: the de-dupe applied to the listings of the pages *)

\* two sales at one address, dated or not, with hours or not, and two cards
\* whose title and address differ and whose `${title}|${address}` is the same
DedupListings ==
  {ParseCard([title |-> t, address |-> <<"1 Main St">>, hoursTxt |-> h,
              extra |-> <<"Directions">>], w)[1] :
     t \in {<<"A">>, <<"B">>}, h \in {<<>>, <<"9am-3pm">>},
     w \in {<<>>, <<"Nov 7">>, <<"Nov 9">>}}
  \cup
  {ParseCard([title |-> <<"C", "|", "D">>, address |-> <<"Lot 5">>,
              hoursTxt |-> <<>>, extra |-> <<"Directions">>], <<>>)[1],
   ParseCard([title |-> <<"C">>, address |-> <<"D", "|", "Lot 5">>,
              hoursTxt |-> <<>>, extra |-> <<"Directions">>], <<>>)[1]}

InitDedup ==
  /\ when = <<>> /\ card = <<>> /\ listing = Null /\ payload = Null
  /\ results \in SeqsUpTo(DedupListings, MaxResults)
  /\ pc = "parsed"
  /\ items = <<>>
  /\ i = 1
  /\ inserts = 0 /\ updates = 0 /\ errors = 0
  /\ sales = <<>>
  /\ runs = <<>>
  /\ runNo = 1
  /\ first = Null
  /\ env = Required /\ task = <<>> /\ html = <<>> /\ lastLog = "none"

DedupeStep ==
  /\ pc = "parsed"
  /\ items' = Dedupe(results)
  /\ pc' = "deduped"
  /\ UNCHANGED <<env, task, html, lastLog, when, card, listing, payload,
                 results, i, inserts, updates, errors, sales, runs, runNo,
                 first>>

NextDedup == DedupeStep

SpecDedup == InitDedup /\ [][NextDedup]_vars

----------------------------------------------------------------------------
(* SpecNorm: one card through parseList and the shape guard of upsertSale *)

InitNorm ==
  /\ when \in WhenTexts
  /\ card \in Cards
  /\ listing = Null /\ payload = Null
  /\ results = <<>>
  /\ pc = "card"
  /\ items = <<>>
  /\ i = 1
  /\ inserts = 0 /\ updates = 0 /\ errors = 0
  /\ sales = <<>>
  /\ runs = <<>>
  /\ runNo = 1
  /\ first = Null
  /\ env = Required /\ task = <<>> /\ html = <<>> /\ lastLog = "none"

ParseStep ==
  /\ pc = "card"
  /\ listing' = ParseCard(card, when)
  /\ pc' = "listed"
  /\ UNCHANGED <<env, task, html, lastLog, when, card, payload, results,
                 items, i, inserts, updates, errors, sales, runs, runNo,
                 first>>

PrepareStep ==
  /\ pc = "listed"
  /\ listing # Null
  /\ payload' = Some(Payload(listing[1]))
  /\ pc' = "prepared"
  /\ UNCHANGED <<env, task, html, lastLog, when, card, listing, results,
                 items, i, inserts, updates, errors, sales, runs, runNo,
                 first>>

NextNorm == ParseStep \/ PrepareStep

SpecNorm == InitNorm /\ [][NextNorm]_vars

----------------------------------------------------------------------------
(* SpecIdem: the loop of main run twice over the same listings, from an    *)
(* empty table                                                             *)

DistinctKeys(rs) ==
  \A a, b \in DOMAIN rs : a # b => NaturalKey(rs[a]) # NaturalKey(rs[b])

InitIdem ==
  /\ when = <<>> /\ card = <<>> /\ listing = Null /\ payload = Null
  /\ results = <<>>
  /\ pc = "loop"
  /\ items \in {rs \in ResultSeqs : DistinctKeys(rs)}
  /\ i = 1
  /\ inserts = 0 /\ updates = 0 /\ errors = 0
  /\ sales = <<>>
  /\ runs = <<>>
  /\ runNo = 1
  /\ first = Null
  /\ env = Required /\ task = <<>> /\ html = <<>> /\ lastLog = "none"

SecondPass ==
  /\ pc = "loop"
  /\ i > Len(items)
  /\ first = Null
  /\ first' = Some([inserts |-> inserts, updates |-> updates,
                    errors |-> errors, sales |-> sales])
  /\ i' = 1
  /\ inserts' = 0 /\ updates' = 0 /\ errors' = 0
  /\ UNCHANGED <<env, task, html, lastLog, when, card, listing, payload,
                 results, pc, items, sales, runs, runNo>>

EndSecond ==
  /\ pc = "loop"
  /\ i > Len(items)
  /\ first # Null
  /\ pc' = "twice"
  /\ UNCHANGED <<env, task, html, lastLog, when, card, listing, payload,
                 results, items, i, inserts, updates, errors, sales, runs,
                 runNo, first>>

NextIdem == LoopStep \/ SecondPass \/ EndSecond

SpecIdem == InitIdem /\ [][NextIdem]_vars

----------------------------------------------------------------------------
(* SpecSource: searchEstateSalesNet of src/unnamed/part_003 called several   *)
(* times, in its two variants: "live" returns { source, listings } and falls *)
(* back on mockListings, "rows" returns an array and falls back on []        *)

\* const USE_MOCK = false
USE_MOCK == FALSE

\* normalize: every field exists; the raw listing of parseLightweight has a
\* title and an address, its other fields are null and its hours_json is
\* '{}' for the elements of Elements, which hold no time hint
normalize(raw) ==
  [title |-> IF raw.title = <<>> THEN <<"Estate Sale">> ELSE raw.title,
   address |-> raw.address,
   city |-> <<>>,
   start_at |-> Null,
   ends_at |-> Null,
   hours_json |-> Some(<<"{}">>),
   directions_url |-> Null]

\* parseLightweight(html).map(normalize)
Normalized(doc) ==
  LET raws == parseLightweight(doc)
  IN [k \in DOMAIN raws |-> normalize(raws[k])]

\* the catch block of the "live" variant: const listings = mockListings()
Fallback == LiveMockListings

\* the call begins: with USE_MOCK set the mock listings are returned at once
SourceCall ==
  /\ pc \in {"live", "rows"}
  /\ IF USE_MOCK /\ pc = "live"
     THEN /\ results' = [isArray |-> FALSE, listings |-> LiveMockListings]
          /\ pc' = "returned"
     ELSE /\ results' = results
          /\ pc' = IF pc = "live" THEN "liveFetch" ELSE "rowsFetch"
  /\ UNCHANGED <<env, task, html, lastLog, when, card, listing, payload, items,
                 i, inserts, updates, errors, sales, runs, runNo, first>>

\* the page is fetched and its text read
SourceRespond ==
  /\ pc \in {"liveFetch", "rowsFetch"}
  /\ \E doc \in Docs : html' = <<Some(doc)>>
  /\ pc' = IF pc = "liveFetch" THEN "liveParse" ELSE "rowsParse"
  /\ UNCHANGED <<env, task, lastLog, when, card, listing, payload, results,
                 items, i, inserts, updates, errors, sales, runs, runNo, first>>

\* fetch rejects, or the response is not ok and the call throws
SourceReject ==
  /\ pc \in {"liveFetch", "rowsFetch"}
  /\ pc' = IF pc = "liveFetch" THEN "liveCaught" ELSE "rowsCaught"
  /\ UNCHANGED <<env, task, html, lastLog, when, card, listing, payload,
                 results, items, i, inserts, updates, errors, sales, runs,
                 runNo, first>>

\* return { source, listings } with the listings parsed from the page
LiveParse ==
  /\ pc = "liveParse"
  /\ results' = [isArray |-> FALSE, listings |-> Normalized(html[1][1])]
  /\ pc' = "returned"
  /\ UNCHANGED <<env, task, html, lastLog, when, card, listing, payload, items,
                 i, inserts, updates, errors, sales, runs, runNo, first>>

\* catch (err): 'live fetch error -> using mock fallback'
LiveCaught ==
  /\ pc = "liveCaught"
  /\ results' = [isArray |-> FALSE, listings |-> Fallback]
  /\ pc' = "returned"
  /\ UNCHANGED <<env, task, html, lastLog, when, card, listing, payload, items,
                 i, inserts, updates, errors, sales, runs, runNo, first>>

\* return rows
RowsParse ==
  /\ pc = "rowsParse"
  /\ results' = [isArray |-> TRUE, listings |-> parseListings(html[1][1])]
  /\ pc' = "returned"
  /\ UNCHANGED <<env, task, html, lastLog, when, card, listing, payload, items,
                 i, inserts, updates, errors, sales, runs, runNo, first>>

\* catch (err): return []
RowsCaught ==
  /\ pc = "rowsCaught"
  /\ results' = [isArray |-> TRUE, listings |-> <<>>]
  /\ pc' = "returned"
  /\ UNCHANGED <<env, task, html, lastLog, when, card, listing, payload, items,
                 i, inserts, updates, errors, sales, runs, runNo, first>>

\* the function is called again
SourceAgain ==
  /\ pc = "returned"
  /\ runNo < MaxRuns
  /\ runNo' = runNo + 1
  /\ pc' \in {"live", "rows"}
  /\ html' = <<>>
  /\ results' = <<>>
  /\ UNCHANGED <<env, task, lastLog, when, card, listing, payload, items, i,
                 inserts, updates, errors, sales, runs, first>>

InitSource ==
  /\ when = <<>> /\ card = <<>> /\ listing = Null /\ payload = Null
  /\ results = <<>>
  /\ pc \in {"live", "rows"}
  /\ items = <<>>
  /\ i = 1
  /\ inserts = 0 /\ updates = 0 /\ errors = 0
  /\ sales = <<>>
  /\ runs = <<>>
  /\ runNo = 1
  /\ first = Null
  /\ env = Required
  /\ task = <<>> /\ html = <<>>
  /\ lastLog = "none"

NextSource ==
  \/ SourceCall \/ SourceRespond \/ SourceReject \/ LiveParse \/ LiveCaught
  \/ RowsParse \/ RowsCaught \/ SourceAgain

SpecSource == InitSource /\ [][NextSource]_vars

----------------------------------------------------------------------------
(* Claims *)

\* the fields of a row that its natural key does not fix
MergedFields == {"city", "end_at", "hours_json", "distance_mi", "directions_url"}

\* C1: after any sequence of runs of the worker, no two rows of the sales
\* table have the same natural key (title, address, start_at).
C1_NoDuplicateRows ==
  \A a, b \in DOMAIN sales :
    a # b => NaturalKey(sales[a]) # NaturalKey(sales[b])

C3_NoRegression ==
  [][\A id \in DOMAIN sales : \A f \in MergedFields :
       (/\ pc = "loop"
        /\ i <= Len(items)
        /\ NaturalKey(Payload(items[i])) = NaturalKey(sales[id])
        /\ sales[id][f] # Null
        /\ Payload(items[i])[f] = Null)
       => sales'[id][f] = sales[id][f]]_vars

\* C4: an item whose upsertSale throws adds exactly one to the error counter
\* and nothing to the others, writes nothing, and the loop goes on with the
\* next item: the summary is reached only after the last item.
C4_BatchContinues ==
  /\ [][(pc = "loop" /\ i <= Len(items)) =>
          /\ pc' = "loop"
          /\ items' = items
          /\ i' = i + 1
          /\ errors' \in {errors, errors + 1}
          /\ (errors' = errors + 1 =>
                sales' = sales /\ inserts' = inserts /\ updates' = updates)]_vars
  /\ [](pc = "done" => i = Len(items) + 1)

\* an error on the first of two items of the first run, and the second item
\* inserted after it
C4_Witness ==
  /\ pc = "done"
  /\ runNo = 1
  /\ Len(items) = 2
  /\ errors = 1
  /\ inserts = 1
  /\ sales = <<Payload(items[2])>>

IsSummary(r) == Len(r.notes) = 4

\* C5: the status recorded for a run that ends with errors > 0 differs from
\* the status recorded for a run that ends with errors = 0.
C5_PartialStatus ==
  \A a, b \in DOMAIN runs :
    (/\ IsSummary(runs[a]) /\ IsSummary(runs[b])
     /\ runs[a].notes[4] > 0
     /\ runs[b].notes[4] = 0)
    => runs[a].status # runs[b].status

\* the first place of a natural key in a list that holds it
FirstIndex(rs, key) ==
  CHOOSE k \in DOMAIN rs :
    /\ NaturalKey(rs[k]) = key
    /\ \A j \in 1..(k - 1) : NaturalKey(rs[j]) # key

\* C6: the de-duped list has at most one listing per natural key, every key
\* of it is a key of the input, and its keys are in the order of their first
\* occurrence in the input.
C6_OnePerKeyInOrder ==
  pc = "deduped" =>
    /\ \A a, b \in DOMAIN items :
         a # b => NaturalKey(items[a]) # NaturalKey(items[b])
    /\ \A a \in DOMAIN items :
         \E k \in DOMAIN results : NaturalKey(results[k]) = NaturalKey(items[a])
    /\ \A a, b \in DOMAIN items :
         a < b => FirstIndex(results, NaturalKey(items[a]))
                    < FirstIndex(results, NaturalKey(items[b]))

\* a listing met again after a listing of another sale: two are emitted
C6_Witness ==
  /\ pc = "deduped"
  /\ Len(results) = 3
  /\ NaturalKey(results[1]) = NaturalKey(results[3])
  /\ results[1].title # results[2].title
  /\ Len(items) = 2

\* C7: every natural key of the input of the de-dupe is a key of its output.
C7_NoKeyLost ==
  pc = "deduped" =>
    \A k \in DOMAIN results :
      \E a \in DOMAIN items : NaturalKey(items[a]) = NaturalKey(results[k])

\* C8: when two listings share a natural key and the later one is the last of
\* that key to have a field set, every listing emitted for the key carries
\* the later one's value of the field.
C8_LaterNonNullWins ==
  pc = "deduped" =>
    \A j, k \in DOMAIN results : \A f \in MergedFields :
      (/\ j < k
       /\ NaturalKey(results[j]) = NaturalKey(results[k])
       /\ results[k][f] # Null
       /\ \A m \in DOMAIN results :
            (m > k /\ NaturalKey(results[m]) = NaturalKey(results[k]))
              => results[m][f] = Null)
      => \A a \in DOMAIN items :
           NaturalKey(items[a]) = NaturalKey(results[k])
             => items[a][f] = results[k][f]

\* C9: when two listings share a natural key, the earlier with a field set
\* and the later with null for it, every listing emitted for the key has the
\* field set.
C9_NeverRegressesToNull ==
  pc = "deduped" =>
    \A j, k \in DOMAIN results : \A f \in MergedFields :
      (/\ j < k
       /\ NaturalKey(results[j]) = NaturalKey(results[k])
       /\ results[j][f] # Null
       /\ results[k][f] = Null)
      => \A a \in DOMAIN items :
           NaturalKey(items[a]) = NaturalKey(results[k]) => items[a][f] # Null

PairOk(r) ==
  /\ (r.start_at = Null) = (r.end_at = Null)
  /\ r.start_at # Null => r.end_at[1] >= r.start_at[1]

\* C10: start_at is null exactly when end_at is, and end_at >= start_at when
\* both are set, in every listing parseList pushes and every payload
\* upsertSale prepares.
C10_StartEndPair ==
  /\ listing # Null => PairOk(listing[1])
  /\ payload # Null => PairOk(payload[1])

\* C11: when the fetch of one page fails while the fetch of another page
\* succeeds, the run is not failed: searchEstateSalesNet does not throw and
\* main does not go to its catch.
C11_PartialFetch ==
  (/\ \E p \in DOMAIN task : task[p] = "rejected"
   /\ \E p \in DOMAIN task : task[p] = "resolved")
  => pc \notin {"failed", "exit1"}

\* C12: a failure to write an audit record never aborts the run: the step
\* after a logRun call is the same whether the record was written or not, and
\* the exit status is the one of the run without the failure.
C12_AuditFailureIgnored ==
  [][/\ pc = "log" => pc' = "insert"
     /\ pc \in {"caughtLog", "caughtInsert"} => pc' = "exit1"]_vars

\* the statuses of the records written at the end of a run
FinalStatuses == {"success", "failed", "done", "error"}

\* C13: every run that starts ends, and when the process ends the last logRun
\* call of the run was the one of a final summary, whether the fetch failed,
\* nothing was fetched, items failed or the bulk upsert failed.
C13_FinalSummaryAttempted ==
  /\ [](pc \in {"done", "exit1"} => lastLog \in FinalStatuses)
  /\ (pc \in {"boot", "bulkBoot"}) ~> (pc \in {"done", "exit1"})

\* the bulk upsert failed and the final record was attempted, not written
C13_Witness ==
  /\ pc = "exit1"
  /\ items # <<>>
  /\ lastLog = "error"
  /\ \A k \in DOMAIN runs : runs[k].status # "error"

\* C14: an invocation appends one audit record, at the end of the run: a
\* step that appends a record to 'runs' is the step that ends the run, and no
\* record is appended at the start of the run or during it.
C14_OneRecordAtEnd ==
  [][runs' # runs => pc' \in {"done", "exit1"}]_vars

\* C15: when SUPABASE_URL or SUPABASE_SERVICE_ROLE_KEY is not set, the process
\* ends with the error at module load: no page task is created, no request is
\* issued and nothing is written to 'sales' or 'runs'.
C15_ConfigGate ==
  (\E k \in Required : k \notin env)
  => /\ pc \in {"load", "crashed"}
     /\ task = <<>>
     /\ html = <<>>
     /\ sales = <<>>
     /\ runs = <<>>
     /\ lastLog = "none"

\* the key is missing and the process has ended
C15_Witness ==
  /\ env = {"SUPABASE_URL"}
  /\ pc = "crashed"

\* C16: at every moment the number of page requests that are issued and not
\* yet answered is at most the cap of the limiter.
C16_FetchesWithinCap ==
  Cardinality({p \in DOMAIN task : task[p] = "fetching"}) <= Cap

\* page 2 is being fetched after page 1 was answered
C16_Witness ==
  /\ task # <<>>
  /\ task[1] = "resolved"
  /\ task[2] = "fetching"

\* C17: the request for a page is issued at the end of a delay, and the delay
\* of page p + 1 begins after the fetch of page p has completed.
C17_DelayBetweenFetches ==
  [][\A p \in DOMAIN task :
       /\ (p \in DOMAIN task' /\ task'[p] = "fetching" /\ task[p] # "fetching")
          => /\ task[p] = "sleeping"
             /\ \A q \in 1..(p - 1) : task[q] \in Settled
       /\ (p \in DOMAIN task' /\ task'[p] = "sleeping" /\ task[p] # "sleeping")
          => \A q \in 1..(p - 1) : task[q] \in Settled]_vars

\* the request for page 2 is out, after the one for page 1 failed
C17_Witness ==
  /\ task # <<>>
  /\ task[1] = "rejected"
  /\ task[2] = "fetching"

\* the listings parseList makes of page p
PageListings(p) == parseList(html[p][1])

\* the listings of the pages from p on, page by page
RECURSIVE ListingsFrom(_)
ListingsFrom(p) ==
  IF p > Pages THEN <<>> ELSE <<PageListings(p)>> \o ListingsFrom(p + 1)

\* the number of listings of the pages before page p, pl[q] being the
\* listings of page q
RECURSIVE Offset(_, _)
Offset(pl, p) == IF p = 1 THEN 0 ELSE Offset(pl, p - 1) + Len(pl[p - 1])

\* C18: the list handed to the de-dupe, as it is when searchEstateSalesNet
\* returns, holds the listings of page 1, then those of page 2, each page in
\* the order of its document.
C18_PageScanOrder ==
  (pc = "loop" /\ i = 1) =>
    LET pl == ListingsFrom(1)
    IN /\ Len(results) = Offset(pl, Pages + 1)
       /\ \A p \in 1..Pages : \A k \in DOMAIN pl[p] :
            results[Offset(pl, p) + k] = pl[p][k]

\* page 1 gave two different listings and page 2 a third
C18_Witness ==
  /\ pc = "loop"
  /\ Len(PageListings(1)) = 2
  /\ Len(PageListings(2)) = 1
  /\ Cardinality({results[k] : k \in DOMAIN results}) = 3

\* an element the selector and the text filter of parseList take for a card
Recognizable(el) ==
  /\ el.kind \in Selected
  /\ \E k \in CardTexts : includes(toLowerCase(Blob(el, el.when)), k)

\* C19: a document without a recognizable listing fragment is extracted to the
\* empty sequence and the extraction raises no error: parseList, parseLightweight
\* and parseListings return <<>> for the pages handed to the parser, and a
\* search whose fetches all resolved does not end in the catch of main.
C19_NothingRecognized ==
  /\ (pc = "loop" /\ i = 1) =>
       \A p \in DOMAIN html :
         LET doc == html[p][1]
         IN /\ (\A k \in DOMAIN doc : ~ Recognizable(doc[k]))
               => parseList(doc) = <<>>
            /\ (\A k \in DOMAIN doc : doc[k].kind # "estate-card")
               => parseLightweight(doc) = <<>>
            /\ (\A k \in DOMAIN doc : doc[k].kind \notin ListingKinds)
               => parseListings(doc) = <<>>
  /\ (pc = "loop" /\ i = 1
      /\ \A p \in DOMAIN html : \A k \in DOMAIN html[p][1] :
           ~ Recognizable(html[p][1][k]))
     => results = <<>> /\ items = <<>>
  /\ (task # <<>> /\ \A p \in DOMAIN task : task[p] = "resolved")
     => pc \notin {"failed", "exit1"}

\* page 1 holds a list item and a div, page 2 is empty: nothing is extracted
C19_Witness ==
  /\ pc = "loop" /\ i = 1
  /\ Len(html[1][1]) = 2
  /\ html[1][1][1].kind = "li"
  /\ html[1][1][2].kind = "div"
  /\ html[2][1] = <<>>
  /\ results = <<>>

\* C20: a card with a title is emitted exactly when its blob, in lower case,
\* contains none of the keywords: a blob that contains one is discarded, a
\* blob that contains none is not discarded by the filter.
C20_HomeLocationFilter ==
  pc = "listed" =>
    LET blob == toLowerCase(Blob(card, when))
        hit == \E k \in bad : includes(blob, k)
    IN /\ hit => listing = Null
       /\ (~ hit /\ Trim(card.title) # <<>>) => listing # Null

\* a card with a title and the text "STORE Hours" was discarded
C20_Witness ==
  /\ pc = "listed"
  /\ Trim(card.title) # <<>>
  /\ card.extra = <<"STORE", " ", "Hours">>
  /\ listing = Null

\* C21: every row written to the sales table has a title that is not null and
\* not empty after trimming.
C21_TitleNeverEmpty ==
  \A id \in DOMAIN sales :
    /\ sales[id].title # Null
    /\ Trim(sales[id].title[1]) # <<>>

\* C22: the hours of a listing are { generic: range } with only the matched
\* range when the hours text holds a time range, the text as it is when it
\* holds none, and null when there is no hours text.
C22_HoursOutcomes ==
  (pc = "listed" /\ listing # Null) =>
    LET hoursTxt == Trim(card.hoursTxt)
    IN listing[1].hours_json =
         (IF parseHours(hoursTxt) # Null THEN parseHours(hoursTxt)
          ELSE IF hoursTxt # <<>> THEN Some(hoursTxt)
          ELSE Null)

\* C23: when the lookup finds a row and every row it can return already
\* equals the value to store, the item is a zero-change match: no update is
\* written, so the summary does not count it among the updates.
C23_NoWriteWhenUnchanged ==
  [][(/\ pc = "loop"
      /\ i <= Len(items)
      /\ Matches(sales, Payload(items[i])) # {}
      /\ \A id \in Matches(sales, Payload(items[i])) :
           sales[id] = Payload(items[i]))
     => updates' = updates]_vars

\* C24: in the per-item loop each item handled adds one to exactly one of
\* inserts, updates and errors, so the three add up to the number of items
\* handled and, when the loop has ended, to the number of items fetched; an
\* item is counted as an insert or an update only when its write returned
\* without an error, and an item counted as an error wrote nothing.
C24_CountersPartitionItems ==
  /\ [](/\ pc = "loop" => inserts + updates + errors = i - 1
        /\ (pc = "done" /\ lastLog = "success") =>
             inserts + updates + errors = Len(items))
  /\ [][(pc = "loop" /\ i <= Len(items)) =>
          LET p == Payload(items[i])
          IN /\ i' = i + 1
             /\ \/ /\ inserts' = inserts + 1
                   /\ updates' = updates /\ errors' = errors
                   /\ Matches(sales, p) = {}
                   /\ sales' = Append(sales, p)
                \/ /\ updates' = updates + 1
                   /\ inserts' = inserts /\ errors' = errors
                   /\ \E id \in Matches(sales, p) :
                        sales' = [sales EXCEPT ![id] = p]
                \/ /\ errors' = errors + 1
                   /\ inserts' = inserts /\ updates' = updates
                   /\ sales' = sales]_vars

C24_Witness ==
  /\ pc = "done"
  /\ lastLog = "success"
  /\ Len(items) >= 2
  /\ updates >= 1
  /\ errors >= 1

\* C25: when the lookup query of upsertSale returns an error, the call throws
\* before the insert and the update: the table is as it was, and the item is
\* counted as an error.
C25_LookupErrorWritesNothing ==
  [][(pc = "loop" /\ i <= Len(items)) =>
       LET failed == {o \in upsertSale(sales, items[i]) : o.stage = "select"}
       IN /\ failed # {}
          /\ \A o \in failed : o.action = "error" /\ o.sales = sales
          /\ errors' = errors + 1 => sales' = sales
          /\ sales' # sales => inserts' + updates' = inserts + updates + 1]_vars

C25_Witness ==
  /\ pc = "loop"
  /\ i = 2
  /\ errors = 1
  /\ sales # <<>>
  /\ Matches(sales, Payload(items[1])) = {}

\* the listing is made of an element of the document
DerivedFrom(l, doc) ==
  \E k \in DOMAIN doc :
    /\ l.address \in {Trim(doc[k].address), CollapseBlanks(doc[k].address)}
    /\ l.title \in {Trim(doc[k].title), CollapseBlanks(doc[k].title),
                    <<"Estate Sale">>}

\* C26: in live mode every listing searchEstateSalesNet returns is made of
\* the document that was fetched, and a call whose fetch failed returns no
\* listing: no mock listing is returned.
C26_OnlyFetchedListings ==
  (~ USE_MOCK /\ pc = "returned") =>
    /\ html = <<>> => results.listings = <<>>
    /\ html # <<>> =>
         \A k \in DOMAIN results.listings :
           DerivedFrom(results.listings[k], html[1][1])

\* C27: when the source returns no listings, an empty array or a value that
\* is not an array, the bulk worker writes nothing to sales, attempts the
\* no-op audit record and exits with code 0.
C27_NoListingsNoWrite ==
  /\ [][(/\ pc = "bulkFetch"
         /\ pc' # "bulkFetchCaught"
         /\ (~ results'.isArray \/ results'.listings = <<>>))
        => (pc' = "bulkEmpty" /\ sales' = sales)]_vars
  /\ [][pc = "bulkEmpty" =>
          /\ sales' = sales
          /\ pc' = "done"
          /\ lastLog' = "done"
          /\ runs' \in {runs, Append(runs, [status |-> "done",
                                            notes |-> <<"0 listings (no-op)">>])}]_vars

C27_Witness ==
  /\ pc = "done"
  /\ ~ results.isArray
  /\ results.listings # <<>>
  /\ sales # <<>>
  /\ runs # <<>>
  /\ runs[Len(runs)].notes = <<"0 listings (no-op)">>

\* C28: in the bulk worker the success record ('done' with the row count) and
\* exit code 0 come only after the upsert returned without an error, all rows
\* written; after an upsert error nothing is written, the 'error' record is
\* attempted and the exit code is 1.
C28_SuccessOnlyAfterUpsert ==
  [][/\ (pc' = "bulkUpserted" /\ pc # "bulkUpserted") =>
          /\ pc = "bulkUpsert"
          /\ sales' = UpsertRows(sales, BulkRows(items))
     /\ (pc' = "done" /\ pc \notin {"done", "bulkEmpty"}) =>
          /\ pc = "bulkUpserted"
          /\ lastLog' = "done"
          /\ runs' \in {runs, Append(runs, [status |-> "done",
                                            notes |-> <<"upserted", Len(items)>>])}
     /\ (pc' = "bulkUpsertCaught" /\ pc # "bulkUpsertCaught") =>
          /\ pc = "bulkUpsert"
          /\ sales' = sales
     /\ pc = "bulkUpsertCaught" =>
          /\ pc' = "exit1"
          /\ lastLog' = "error"
          /\ sales' = sales]_vars

C28_Witness ==
  /\ pc = "exit1"
  /\ lastLog = "error"
  /\ items # <<>>
  /\ runs # <<>>
  /\ runs[Len(runs)] = [status |-> "error", notes |-> <<"bulkUpsertCaught">>]

====
